---------------------------- MODULE Spec2Model ----------------------------
(***************************************************************************)
(* Model of the search tool (src/search-tool.cpp): the per-file pipeline   *)
(* process_file (scan, line assignment, All/Any filter, spread merge,      *)
(* search records, replace walk), the two scheduling variants of main      *)
(* (futures + counting semaphore, dispatch + completion counter) and       *)
(* output_refs.                                                            *)
(*                                                                         *)
(* Offsets are 0-based as in the code; a buffer is a sequence of           *)
(* characters, so the byte at offset o is buf[o + 1].                      *)
(***************************************************************************)
EXTENDS Integers, Sequences, FiniteSets, TLC

(***************************************************************************)
(* Bounds of the model.                                                    *)
(***************************************************************************)
\* longest file buffer drawn in the single-file specification
MaxLen == 4
\* largest number of file tasks in the scheduling specification
MaxFiles == 3
\* largest value get_good_concurrency_count() returns in the model
MaxConcurrency == 3

(***************************************************************************)
(* Characters.  "nl" is the line feed, "A" the upper-case form of "a";     *)
(* "x" occurs only in replacement texts.                                   *)
(***************************************************************************)
NL == "nl"
Alphabet == {"a", "A", NL}

\* std::tolower applied to one character
ToLower(c) == IF c = "A" THEN "a" ELSE c

\* std::transform(..., tolower) over a whole string
FoldCase(s) == [i \in 1..Len(s) |-> ToLower(s[i])]

Min(a, b) == IF a <= b THEN a ELSE b
Max(a, b) == IF a >= b THEN a ELSE b

\* s.substr(pos) for pos <= s.length()
SubstrFrom(s, pos) == SubSeq(s, pos + 1, Len(s))

\* s.substr(pos, count) for pos <= s.length(); count is a Size (unsigned):
\* a negative difference has wrapped to a value above every buffer length,
\* and substr clamps the count to the rest of the string
Substr(s, pos, count) ==
    IF count < 0 THEN SubstrFrom(s, pos)
    ELSE SubSeq(s, pos + 1, Min(pos + count, Len(s)))

RECURSIVE Concat(_)
\* the concatenation of a sequence of strings
Concat(ss) == IF ss = <<>> THEN <<>> ELSE Head(ss) \o Concat(Tail(ss))

RECURSIVE SeqsUpTo(_, _)
\* all sequences over S of length at most n
SeqsUpTo(S, n) ==
    IF n = 0 THEN {<<>>}
    ELSE LET shorter == SeqsUpTo(S, n - 1)
         IN  shorter \cup {Append(s, c) : s \in {t \in shorter : Len(t) = n - 1}, c \in S}

(***************************************************************************)
(* Range set (UU::Spread): a list of half-open stretches [first, last).    *)
(***************************************************************************)
Stretch(first, last) == [first |-> first, last |-> last]

StretchLength(st) == st.last - st.first

\* Spread::add: the stretch is appended, nothing is merged until simplify
SpreadAdd(sp, st) == Append(sp, st)

RECURSIVE InsertStretch(_, _)
\* insert a stretch into a list ordered by (first, last)
InsertStretch(sorted, st) ==
    IF sorted = <<>> THEN <<st>>
    ELSE LET h == Head(sorted)
         IN  IF st.first < h.first \/ (st.first = h.first /\ st.last <= h.last)
             THEN <<st>> \o sorted
             ELSE <<h>> \o InsertStretch(Tail(sorted), st)

RECURSIVE SortStretches(_)
SortStretches(sp) ==
    IF sp = <<>> THEN <<>> ELSE InsertStretch(SortStretches(Tail(sp)), Head(sp))

RECURSIVE MergeSorted(_, _)
\* merge every stretch that overlaps or touches the last one of acc
MergeSorted(acc, rest) ==
    IF rest = <<>> THEN acc
    ELSE LET st == Head(rest)
         IN  IF acc # <<>> /\ st.first <= acc[Len(acc)].last
             THEN MergeSorted([acc EXCEPT ![Len(acc)].last = Max(@, st.last)], Tail(rest))
             ELSE MergeSorted(Append(acc, st), Tail(rest))

\* Spread::simplify: ascending, pairwise disjoint, non-touching stretches
Simplify(sp) == MergeSorted(<<>>, SortStretches(sp))

(***************************************************************************)
(* Match (src/search-tool.cpp, class Match).                               *)
(***************************************************************************)
\* Match(needle_index, match_start_index, match_length)
NewMatch(needle_index, match_start_index, match_length) ==
    [needle_index     |-> needle_index,
     spread           |-> <<Stretch(match_start_index, match_start_index + match_length)>>,
     line_start_index |-> 0,
     line_length      |-> 0,
     line             |-> 0]

\* Match::match_start_index: the first offset of the spread
MatchStartIndex(m) == m.spread[1].first

(***************************************************************************)
(* Match scanner: the literal loop and the pattern loop of process_file.   *)
(* A pattern needle is the egrep pattern c+ for one character c, written   *)
(* [plus |-> c].                                                           *)
(***************************************************************************)
\* the needle occurs in the haystack at offset o
OccursAt(haystack, needle, o) ==
    /\ o + Len(needle) <= Len(haystack)
    /\ \A k \in 1..Len(needle) : haystack[o + k] = needle[k]

\* std::search(hit, haystack.end(), searcher): the offset of the first
\* occurrence at or after hit, haystack.end() when there is none
SearchFrom(haystack, needle, hit) ==
    LET occ == {o \in hit..Len(haystack) : OccursAt(haystack, needle, o)}
    IN  IF occ = {} THEN Len(haystack)
        ELSE CHOOSE o \in occ : \A p \in occ : o <= p

\* hit = ++it: where the search resumes after a hit at offset it
ResumeAfter(it, needle) == it + 1

RECURSIVE StringNeedleMatches(_, _, _, _)
\* the while (true) loop for one literal needle
StringNeedleMatches(haystack, needle, needle_index, hit) ==
    LET it == SearchFrom(haystack, needle, hit)
    IN  IF it = Len(haystack) THEN <<>>
        ELSE <<NewMatch(needle_index, it, Len(needle))>>
             \o StringNeedleMatches(haystack, needle, needle_index, ResumeAfter(it, needle))

\* length of the run of character c that starts at offset o
RECURSIVE RunLength(_, _, _)
RunLength(haystack, c, o) ==
    IF o < Len(haystack) /\ haystack[o + 1] = c
    THEN 1 + RunLength(haystack, c, o + 1) ELSE 0

RECURSIVE RegexNeedleMatches(_, _, _, _)
\* std::cregex_iterator over the haystack for the pattern c+: successive
\* leftmost-longest matches, each search resuming at the end of the last
RegexNeedleMatches(haystack, c, needle_index, from) ==
    LET starts == {o \in from..(Len(haystack) - 1) : haystack[o + 1] = c}
    IN  IF starts = {} THEN <<>>
        ELSE LET o == CHOOSE x \in starts : \A y \in starts : x <= y
                 n == RunLength(haystack, c, o)
             IN  <<NewMatch(needle_index, o, n)>>
                 \o RegexNeedleMatches(haystack, c, needle_index, o + n)

RECURSIVE ScanStrings(_, _, _)
\* for (const auto &string_needle : env.string_needles()), needle_index++
ScanStrings(haystack, needles, needle_index) ==
    IF needles = <<>> THEN <<>>
    ELSE StringNeedleMatches(haystack, Head(needles), needle_index, 0)
         \o ScanStrings(haystack, Tail(needles), needle_index + 1)

RECURSIVE ScanRegexes(_, _, _)
\* for (const auto &regex_needle : env.regex_needles()), needle_index++
ScanRegexes(haystack, needles, needle_index) ==
    IF needles = <<>> THEN <<>>
    ELSE RegexNeedleMatches(haystack, Head(needles).plus, needle_index, 0)
         \o ScanRegexes(haystack, Tail(needles), needle_index + 1)

\* the haystack: the source, or its case-folded copy
Haystack(source, env) ==
    IF env.search_case = "Insensitive" THEN FoldCase(source) ELSE source

\* the matches vector after both scanning loops
ScanMatches(haystack, env) ==
    ScanStrings(haystack, env.string_needles, 0)
    \o ScanRegexes(haystack, env.regex_needles, Len(env.string_needles))

NeedleCount(env) == Len(env.string_needles) + Len(env.regex_needles)

(***************************************************************************)
(* std::sort of the matches by start offset.  std::sort is not stable, so  *)
(* every arrangement that is ordered by start offset is a possible result. *)
(***************************************************************************)
RECURSIVE SortedOrders(_, _)
\* the index sequences that list the index set S in ascending key order
SortedOrders(S, key) ==
    IF S = {} THEN {<<>>}
    ELSE LET firsts == {i \in S : \A j \in S : key[i] <= key[j]}
         IN  UNION {{<<i>> \o r : r \in SortedOrders(S \ {i}, key)} : i \in firsts}

\* the matches are left in scan order: needle after needle
MatchOrdersUnsorted(matches, env) == {[i \in 1..Len(matches) |-> i]}

\* the arrangements the sort step may leave the matches in
MatchOrders(matches, env) ==
    IF NeedleCount(env) > 1
    THEN SortedOrders(1..Len(matches), [i \in 1..Len(matches) |-> MatchStartIndex(matches[i])])
    ELSE {[i \in 1..Len(matches) |-> i]}

Arrange(seq, order) == [i \in 1..Len(order) |-> seq[order[i]]]

(***************************************************************************)
(* Line indexer.  UU::find_line_end_offsets and UU::offsets_for_line are   *)
(* library code outside the sources; they follow the description of the    *)
(* Line Indexer: line ends are collected up to and including the line of   *)
(* max_string_index, the end of the buffer closing an unterminated line.   *)
(***************************************************************************)
Npos == -1

RECURSIVE AscendingSeq(_)
\* the elements of a finite set of integers in ascending order
AscendingSeq(S) ==
    IF S = {} THEN <<>>
    ELSE LET x == CHOOSE y \in S : \A z \in S : y <= z
         IN  <<x>> \o AscendingSeq(S \ {x})

\* UU::find_line_end_offsets(str, max_string_index)
FindLineEndOffsets(str, max_string_index) ==
    LET newlines == {o \in 0..(Len(str) - 1) : str[o + 1] = NL}
        beyond   == {o \in newlines : o >= max_string_index}
    IN  IF beyond = {}
        THEN Append(AscendingSeq(newlines), Len(str))
        ELSE LET stop == CHOOSE o \in beyond : \A p \in beyond : o <= p
             IN  AscendingSeq({o \in newlines : o <= stop})

\* UU::offsets_for_line(str, line_end_offsets, line), line is 1-based
OffsetsForLine(str, line_end_offsets, line) ==
    IF line < 1 \/ line > Len(line_end_offsets) THEN <<Npos, Npos>>
    ELSE <<IF line = 1 THEN 0 ELSE line_end_offsets[line - 1] + 1,
           line_end_offsets[line]>>

RECURSIVE AdvanceLine(_, _, _)
\* while (haystack_line_end_offsets[line] < match.match_start_index()) line++;
\* the cursor stops at the end of the list, where the ASSERT fires
AdvanceLine(line_end_offsets, line, start) ==
    IF line < Len(line_end_offsets) /\ line_end_offsets[line + 1] < start
    THEN AdvanceLine(line_end_offsets, line + 1, start)
    ELSE line

\* the 0-based cursor is passed where the 1-based line number is expected
SetLineMetadataZeroBased(haystack, line_end_offsets, match, line) ==
    LET offsets == OffsetsForLine(haystack, line_end_offsets, line)
        sidx    == offsets[1]
        eidx    == offsets[2]
        located == IF sidx # Npos /\ eidx # Npos
                   THEN [match EXCEPT !.line_start_index = sidx,
                                      !.line_length = eidx - sidx]
                   ELSE match
    IN  [located EXCEPT !.line = line]

\* the body of the line-metadata loop for one match at line cursor `line`
SetLineMetadata(haystack, line_end_offsets, match, line) ==
    LET offsets == OffsetsForLine(haystack, line_end_offsets, line + 1)
        sidx    == offsets[1]
        eidx    == offsets[2]
        located == IF sidx # Npos /\ eidx # Npos
                   THEN [match EXCEPT !.line_start_index = sidx,
                                      !.line_length = eidx - sidx]
                   ELSE match
    IN  [located EXCEPT !.line = line + 1]

RECURSIVE AssignLinesFrom(_, _, _, _, _)
\* for (auto &match : matches) with the shared cursor `line`
AssignLinesFrom(haystack, line_end_offsets, matches, k, line) ==
    IF k > Len(matches) THEN <<>>
    ELSE LET cursor == AdvanceLine(line_end_offsets, line, MatchStartIndex(matches[k]))
         IN  <<SetLineMetadata(haystack, line_end_offsets, matches[k], cursor)>>
             \o AssignLinesFrom(haystack, line_end_offsets, matches, k + 1, cursor)

\* set line-related metadata for the (non-empty, ordered) matches
AssignLines(haystack, matches) ==
    AssignLinesFrom(haystack,
                    FindLineEndOffsets(haystack, MatchStartIndex(matches[Len(matches)])),
                    matches, 1, 0)

(***************************************************************************)
(* Filter for MatchType::All with more than one needle.                    *)
(***************************************************************************)
\* a run counts as complete as soon as any needle matched on the line
RunIsCompleteAnyNeedle(matched_needle_indexes, needle_count) ==
    matched_needle_indexes # {}

\* matched_needle_indexes.size() == needle_count
RunIsComplete(matched_needle_indexes, needle_count) ==
    Cardinality(matched_needle_indexes) = needle_count

RECURSIVE FilterLoop(_, _, _, _, _, _, _)
\* the for loop: idx counts the matches consumed, sidx the start of the run
FilterLoop(matches, needle_count, idx, sidx, current_line, matched, filtered) ==
    IF idx = Len(matches)
    THEN IF RunIsComplete(matched, needle_count)
         THEN filtered \o SubSeq(matches, sidx + 1, idx)
         ELSE filtered
    ELSE LET match == matches[idx + 1]
             cur   == IF current_line = 0 THEN match.line ELSE current_line
         IN  IF cur = match.line
             THEN FilterLoop(matches, needle_count, idx + 1, sidx, cur,
                             matched \cup {match.needle_index}, filtered)
             ELSE FilterLoop(matches, needle_count, idx + 1, idx, match.line,
                             {match.needle_index},
                             IF RunIsComplete(matched, needle_count)
                             THEN filtered \o SubSeq(matches, sidx + 1, idx)
                             ELSE filtered)

\* the matches that survive the All/Any filter
FilterMatches(matches, env) ==
    IF env.match_type = "All" /\ NeedleCount(env) > 1
    THEN FilterLoop(matches, NeedleCount(env), 0, 0, 0, {}, <<>>)
    ELSE matches

(***************************************************************************)
(* Merge of the spreads of same-line matches (MergeSpreads::Yes).          *)
(***************************************************************************)
RECURSIVE MergeLoop(_, _, _, _)
MergeLoop(matches, k, current_line, filtered) ==
    IF k > Len(matches) THEN filtered
    ELSE LET match == matches[k]
         IN  IF current_line = match.line
             THEN MergeLoop(matches, k + 1, current_line,
                            [filtered EXCEPT ![Len(filtered)].spread =
                                 @ \o match.spread])
             ELSE MergeLoop(matches, k + 1, match.line, Append(filtered, match))

\* same-line matches are merged whatever MergeSpreads says
MergeMatchesAlways(matches, env) ==
    LET merged == MergeLoop(matches, 1, 0, <<>>)
    IN  [k \in 1..Len(merged) |-> [merged[k] EXCEPT !.spread = Simplify(@)]]

\* the merged spreads are left as they were added: no simplify_spread
MergeMatchesUnsimplified(matches, env) ==
    IF env.merge_spreads = "Yes" THEN MergeLoop(matches, 1, 0, <<>>) ELSE matches

\* the matches after the merge step
MergeMatches(matches, env) ==
    IF env.merge_spreads = "Yes"
    THEN LET merged == MergeLoop(matches, 1, 0, <<>>)
         IN  [k \in 1..Len(merged) |->
                 [merged[k] EXCEPT !.spread = Simplify(@)]]
    ELSE matches

(***************************************************************************)
(* Result records (UU::TextRef) and the Search branch of process_file.     *)
(***************************************************************************)
TextRef(index, filename, line, spread, text) ==
    [index |-> index, filename |-> filename, line |-> line,
     spread |-> spread, text |-> text]

RECURSIVE ColumnSpread(_, _, _)
\* for (const auto &match_stretch : match.spread().stretches()) of the
\* Search branch: 1-based columns relative to the line start
ColumnSpread(stretches, line_start_index, column_spread) ==
    IF stretches = <<>> THEN column_spread
    ELSE LET start_column == Head(stretches).first - line_start_index + 1
             end_column   == Head(stretches).last - line_start_index + 1
         IN  ColumnSpread(Tail(stretches), line_start_index,
                          SpreadAdd(column_spread, Stretch(start_column, end_column)))

RECURSIVE SearchResults(_, _, _, _)
\* add a TextRef for each match
SearchResults(filename, source, matches, results) ==
    IF matches = <<>> THEN results
    ELSE LET match == Head(matches)
             index == Len(results) + 1
             line  == Substr(source, match.line_start_index, match.line_length)
         IN  SearchResults(filename, source, Tail(matches),
                 Append(results,
                        TextRef(index, filename, match.line,
                                ColumnSpread(match.spread, match.line_start_index, <<>>),
                                line)))

(***************************************************************************)
(* Replace walk of process_file.                                           *)
(***************************************************************************)
\* the verbatim copy source.substr(source_index, first - source_index)
VerbatimCopy(source, source_index, first) ==
    Substr(source, source_index, first - source_index)

RECURSIVE StretchLoop(_, _, _, _, _)
\* for (const auto &match_stretch : match.spread().stretches()); w holds
\* output, source_index, output_line, output_line_index, output_spread
StretchLoop(source, source_line, match, stretches, w) ==
    IF stretches = <<>> THEN w
    ELSE LET match_stretch == Head(stretches)
             start_column  == match_stretch.first - match.line_start_index
             line_copy     == w.output_line
                              \o Substr(source_line, w.output_line_index,
                                        start_column - w.output_line_index)
             replacement_start_column == Len(line_copy) + 1
             line_repl     == line_copy \o w.replacement
             replacement_end_column   == Len(line_repl) + 1
         IN  StretchLoop(source, source_line, match, Tail(stretches),
                 [w EXCEPT
                    !.output = @ \o VerbatimCopy(source, w.source_index, match_stretch.first)
                                 \o w.replacement,
                    !.source_index = match_stretch.first + StretchLength(match_stretch),
                    !.output_line = line_repl,
                    !.output_line_index = start_column + StretchLength(match_stretch),
                    !.output_spread = SpreadAdd(@, Stretch(replacement_start_column,
                                                           replacement_end_column)),
                    !.cursor_ok = @ /\ w.source_index <= match_stretch.first])

RECURSIVE ReplaceLoop(_, _, _, _)
\* for (auto &match : matches) of the replace walk; w also holds results
ReplaceLoop(filename, source, matches, w) ==
    IF matches = <<>> THEN w
    ELSE LET match == Head(matches)
             source_line == Substr(source, match.line_start_index, match.line_length)
             w1 == StretchLoop(source, source_line, match, match.spread,
                               [w EXCEPT !.output_line = <<>>,
                                         !.output_line_index = 0,
                                         !.output_spread = <<>>])
             output_line == w1.output_line \o SubstrFrom(source_line, w1.output_line_index)
             index == Len(w1.results) + 1
         IN  ReplaceLoop(filename, source, Tail(matches),
                 [w1 EXCEPT !.results = Append(@, TextRef(index, filename, match.line,
                                                          w1.output_spread, output_line))])

\* the replace walk: the rewritten buffer and the records
ReplaceWalk(filename, source, matches, replacement) ==
    LET w == ReplaceLoop(filename, source, matches,
                 [output |-> <<>>, source_index |-> 0, output_line |-> <<>>,
                  output_line_index |-> 0, output_spread |-> <<>>,
                  replacement |-> replacement, results |-> <<>>,
                  cursor_ok |-> TRUE])
    IN  [output    |-> w.output \o SubstrFrom(source, w.source_index),
         results   |-> w.results,
         cursor_ok |-> w.cursor_ok]

(***************************************************************************)
(* process_file between the mapping of the file and its return: every     *)
(* local the function computes, and the exit path it takes.                *)
(***************************************************************************)
\* the dry run is not told apart from the real replace
WritesFileInDryRun(mode) == mode # "Search"

\* write the changed file if needed
WritesFile(mode) == mode = "SearchAndReplace"

\* display text and copied bytes are sliced from the folded haystack
SlicedBufferFolded(source, haystack) == haystack

\* the buffer display text and verbatim copies are sliced from: source,
\* never the case-folded haystack (source.substr, lines 357, 380 and 388)
SlicedBuffer(source, haystack) == source

NoWork(source, exit) ==
    [exit |-> exit, source |-> source, scanned |-> <<>>, lined |-> <<>>,
     filtered |-> <<>>, merged |-> <<>>, output |-> <<>>, written |-> FALSE,
     results |-> <<>>]

ProcessFile(filename, source, env, order) ==
    LET haystack == Haystack(source, env)
        scanned  == ScanMatches(haystack, env)
    IN  IF Len(scanned) = 0 THEN NoWork(source, "nothing_found")
        ELSE
        LET lined    == AssignLines(haystack, Arrange(scanned, order))
            filtered == FilterMatches(lined, env)
        IN  IF Len(filtered) = 0
            THEN [NoWork(source, "filtered_out") EXCEPT !.scanned = scanned, !.lined = lined]
            ELSE
            LET merged == MergeMatches(filtered, env)
                found  == [NoWork(source, "search") EXCEPT
                              !.scanned = scanned, !.lined = lined,
                              !.filtered = filtered, !.merged = merged]
            IN  IF env.mode = "Search"
                THEN [found EXCEPT !.results =
                         SearchResults(filename, SlicedBuffer(source, haystack), merged, <<>>)]
                ELSE LET walk == ReplaceWalk(filename, SlicedBuffer(source, haystack),
                                             merged, env.replacement)
                     IN  [found EXCEPT !.exit = "replace",
                                       !.output = walk.output,
                                       !.written = WritesFile(env.mode),
                                       !.results = walk.results]

\* the arrangements std::sort may produce for this file
ProcessOrders(source, env) == MatchOrders(ScanMatches(Haystack(source, env), env), env)

(***************************************************************************)
(* output_refs: sort by the TextRef order (file path, line number, lowest  *)
(* column of the column range set), renumber, render, persist.             *)
(***************************************************************************)
\* the lowest column of a column range set
LowestColumn(spread) ==
    CHOOSE c \in {spread[k].first : k \in 1..Len(spread)} :
        \A k \in 1..Len(spread) : c <= spread[k].first

\* a < b in the TextRef order (operator< of UU::TextRef)
RefLess(a, b) ==
    \/ a.filename < b.filename
    \/ a.filename = b.filename /\ a.line < b.line
    \/ a.filename = b.filename /\ a.line = b.line
       /\ LowestColumn(a.spread) < LowestColumn(b.spread)

RECURSIVE RefOrders(_, _)
\* the arrangements std::sort(refs, std::less<TextRef>()) may produce
RefOrders(S, refs) ==
    IF S = {} THEN {<<>>}
    ELSE LET firsts == {i \in S : \A j \in S : ~RefLess(refs[j], refs[i])}
         IN  UNION {{<<i>> \o r : r \in RefOrders(S \ {i}, refs)} : i \in firsts}

\* the placeholder indices of the file tasks are kept
RenumberKeepsPlaceholders(refs) == refs

\* ref.set_index(count); count++ over the sorted list
Renumber(refs) == [i \in 1..Len(refs) |-> [refs[i] EXCEPT !.index = i]]

\* the list output_refs renders, for one outcome of the sort
OutputRefs(refs, order) == Renumber(Arrange(refs, order))

(***************************************************************************)
(* The persisted reference list.  UU::TextRef::to_string and from_string   *)
(* are library code outside the sources; a persisted line holds the index, *)
(* the absolute path, the line number and the column range set, written    *)
(* here as  index ") " path ":" line ":" first "-" last { "," first "-"    *)
(* last }.  A path is "/" followed by the number of the file.              *)
(***************************************************************************)
Digits == <<"0", "1", "2", "3", "4", "5", "6", "7", "8", "9">>

RECURSIVE Decimal(_)
\* the decimal digits of a natural number
Decimal(n) ==
    IF n < 10 THEN <<Digits[n + 1]>>
    ELSE Decimal(n \div 10) \o <<Digits[(n % 10) + 1]>>

RECURSIVE ParseDecimalFrom(_, _, _)
\* the number written by the digits of text from position k on; acc is the
\* value of the digits read so far, and a character that is no digit ends it
ParseDecimalFrom(text, k, acc) ==
    IF k > Len(text) \/ ~(\E d \in 0..9 : Digits[d + 1] = text[k]) THEN acc
    ELSE ParseDecimalFrom(text, k + 1,
             10 * acc + (CHOOSE d \in 0..9 : Digits[d + 1] = text[k]))

ParseDecimal(text) == ParseDecimalFrom(text, 1, 0)

\* the position of the first c in text, 0 if there is none
IndexOf(text, c) ==
    IF \E k \in 1..Len(text) : text[k] = c
    THEN CHOOSE k \in 1..Len(text) : text[k] = c /\ \A l \in 1..(k - 1) : text[l] # c
    ELSE 0

\* the absolute path of a file, and the file an absolute path names
PathText(path) == <<"/">> \o Decimal(path)
PathOf(text) == IF text = <<>> THEN 0 ELSE ParseDecimal(Tail(text))

RECURSIVE SpreadText(_)
\* a column range set as text
SpreadText(spread) ==
    IF spread = <<>> THEN <<>>
    ELSE Decimal(spread[1].first) \o <<"-">> \o Decimal(spread[1].last)
         \o (IF Len(spread) > 1 THEN <<",">> \o SpreadText(Tail(spread)) ELSE <<>>)

RECURSIVE ParseSpread(_)
\* the column range set a text stands for
ParseSpread(text) ==
    IF text = <<>> THEN <<>>
    ELSE LET comma == IndexOf(text, ",")
             head  == IF comma = 0 THEN text ELSE SubSeq(text, 1, comma - 1)
             dash  == IndexOf(head, "-")
         IN  <<Stretch(ParseDecimal(SubSeq(head, 1, dash - 1)),
                       ParseDecimal(SubSeq(head, dash + 1, Len(head))))>>
             \o (IF comma = 0 THEN <<>>
                 ELSE ParseSpread(SubSeq(text, comma + 1, Len(text))))

\* ref.to_string(TextRef::StandardFeatures, TextRef::FilenameFormat::ABSOLUTE)
TextRefToString(ref) ==
    Decimal(ref.index) \o <<")", " ">> \o PathText(ref.filename) \o <<":">>
    \o Decimal(ref.line) \o <<":">> \o SpreadText(ref.spread)

\* a reference that names nothing
NoRef == [index |-> 0, filename |-> 0, line |-> 0, spread |-> <<>>]

\* UU::TextRef::from_string(str)
TextRefFromString(str) ==
    LET close  == IndexOf(str, ")")
        rest1  == SubSeq(str, close + 2, Len(str))
        colon1 == IndexOf(rest1, ":")
        rest2  == SubSeq(rest1, colon1 + 1, Len(rest1))
        colon2 == IndexOf(rest2, ":")
    IN  IF close = 0 \/ colon1 = 0 \/ colon2 = 0 THEN NoRef
        ELSE [index    |-> ParseDecimal(SubSeq(str, 1, close - 1)),
              filename |-> PathOf(SubSeq(rest1, 1, colon1 - 1)),
              line     |-> ParseDecimal(SubSeq(rest2, 1, colon2 - 1)),
              spread   |-> ParseSpread(SubSeq(rest2, colon2 + 1, Len(rest2)))]

\* UU::string_view_for_line(str, line_end_offsets, line)
StringViewForLine(str, line_end_offsets, line) ==
    LET offsets == OffsetsForLine(str, line_end_offsets, line)
    IN  IF offsets[1] = Npos THEN <<>> ELSE SubSeq(str, offsets[1] + 1, offsets[2])

(***************************************************************************)
(* The ref tool: it maps the persisted list, finds its line ends and       *)
(* parses the line whose number it is given (ref-tool.cpp, lines 121-158). *)
(***************************************************************************)
\* the ref tool has not run
RefToolIdle == [status |-> "none", sidx |-> 0, ref |-> NoRef]

\* the body of the loop over the numbers given on the command line
OpenRef(refs_string_view, sidx) ==
    LET line_end_offsets == FindLineEndOffsets(refs_string_view, Len(refs_string_view))
    IN  IF sidx <= 0 \/ sidx > Len(line_end_offsets)
        THEN [status |-> "no_such_ref", sidx |-> sidx, ref |-> NoRef]
        ELSE [status |-> "ok", sidx |-> sidx,
              ref |-> TextRefFromString(StringViewForLine(refs_string_view, line_end_offsets, sidx))]

(***************************************************************************)
(* Configurations main can build (option parsing, lines 577-633).          *)
(***************************************************************************)
\* literal needles as given on the command line
NeedleTexts == {<<"a">>, <<"A">>, <<"a", "a">>, <<"a", "A">>}
\* pattern needles as given on the command line
NeedlePatterns == {[plus |-> "a"], [plus |-> "A"]}
\* replacement texts of -r
Replacements == {<<>>, <<"x", "a">>}

\* the needle lists of a run: one needle, or two
NeedleLists(S) == {<<n>> : n \in S} \cup {<<m, n>> : m \in S, n \in S}

\* the Env main builds from its options and arguments
MakeEnv(option_a, option_e, option_i, option_l, option_n, option_r, needles, replacement) ==
    [string_needles |-> IF option_e THEN <<>>
                        ELSE IF option_i
                             THEN [k \in 1..Len(needles) |-> FoldCase(needles[k])]
                             ELSE needles,
     regex_needles  |-> IF option_e
                        THEN IF option_i
                             THEN [k \in 1..Len(needles) |-> [plus |-> ToLower(needles[k].plus)]]
                             ELSE needles
                        ELSE <<>>,
     replacement    |-> replacement,
     match_type     |-> IF option_a THEN "Any" ELSE "All",
     merge_spreads  |-> IF option_l THEN "No" ELSE "Yes",
     mode           |-> IF option_r
                        THEN IF option_n THEN "SearchAndReplaceDryRun" ELSE "SearchAndReplace"
                        ELSE "Search",
     search_case    |-> IF option_i THEN "Insensitive" ELSE "Sensitive"]

\* every Env of the model: -r takes exactly one needle and a replacement
Envs ==
    {MakeEnv(a, e, i, l, n, TRUE, <<needle>>, r) :
        a \in BOOLEAN, e \in {FALSE}, i \in BOOLEAN, l \in BOOLEAN, n \in BOOLEAN,
        needle \in NeedleTexts, r \in Replacements}
    \cup {MakeEnv(a, e, i, l, n, TRUE, <<needle>>, r) :
        a \in BOOLEAN, e \in {TRUE}, i \in BOOLEAN, l \in BOOLEAN, n \in BOOLEAN,
        needle \in NeedlePatterns, r \in Replacements}
    \cup {MakeEnv(a, e, i, l, FALSE, FALSE, needles, <<>>) :
        a \in BOOLEAN, e \in {FALSE}, i \in BOOLEAN, l \in BOOLEAN,
        needles \in NeedleLists(NeedleTexts)}
    \cup {MakeEnv(a, e, i, l, FALSE, FALSE, needles, <<>>) :
        a \in BOOLEAN, e \in {TRUE}, i \in BOOLEAN, l \in BOOLEAN,
        needles \in NeedleLists(NeedlePatterns)}

(***************************************************************************)
(* The command line and the checks main makes on it before it builds the   *)
(* file list (lines 571-633).                                              *)
(***************************************************************************)
MaxArguments == 3

\* the names highlight_color_from_string knows
HighlightColors ==
    {"black", "gray", "red", "green", "yellow", "blue", "magenta", "cyan", "white"}

\* highlight_color_from_string(s)
HighlightColorFromString(s) == IF s \in HighlightColors THEN s ELSE "None"

\* the color name is not looked up: any -c value is accepted
ConfigErrorSkipsColorCheck(c) ==
    IF c.arguments = 0 THEN "usage"
    ELSE IF c.option_r /\ c.arguments - 1 # 1 THEN "replace_arguments"
    ELSE IF c.option_e /\ ~c.compiles THEN "regex_error"
    ELSE "none"

\* the first check of main the command line fails, in the order of the code:
\* optind >= argc, the argument count of -r, std::regex's constructor
\* throwing std::regex_error, the highlight color
ConfigError(c) ==
    IF c.arguments = 0 THEN "usage"
    ELSE IF c.option_r /\ c.arguments - 1 # 1 THEN "replace_arguments"
    ELSE IF c.option_e /\ ~c.compiles THEN "regex_error"
    ELSE IF c.option_c # "" /\ HighlightColorFromString(c.option_c) = "None"
         THEN "highlight_color"
    ELSE "none"

\* exit(-1), or std::terminate after the uncaught std::regex_error
ExitStatus(error) == IF error = "regex_error" THEN "aborted" ELSE "failure"

\* the command line from which main builds the Env e
CmdLineOf(e, option_c) ==
    [option_r  |-> e.mode # "Search",
     option_e  |-> e.regex_needles # <<>>,
     arguments |-> NeedleCount(e) + (IF e.mode # "Search" THEN 1 ELSE 0),
     compiles  |-> TRUE,
     option_c  |-> option_c]

\* values of -c: not given, a known color, an unknown color
OptionColors == {"", "red", "pink"}

\* the command lines with the options of e: any number of arguments under
\* -r, patterns that compile or not under -e, any value of -c
CmdLines(e) ==
    {[CmdLineOf(e, c) EXCEPT !.arguments = n, !.compiles = ok] :
        c \in OptionColors,
        n \in IF e.mode # "Search" THEN 0..MaxArguments ELSE {0, NeedleCount(e)},
        ok \in IF e.regex_needles # <<>> THEN BOOLEAN ELSE {TRUE}}

(***************************************************************************)
(* The match tool (match-tool.cpp): files whose name matches the patterns  *)
(* of the command line.  UU::filename_match is library code outside the    *)
(* sources: the pattern occurs in the file name, letter case ignored       *)
(* unless -s is given.                                                     *)
(***************************************************************************)
MaxPatterns == 3

\* UU::filename_match(pattern, path, flags)
FilenameMatch(pattern, name, case_sensitive) ==
    LET p == IF case_sensitive THEN pattern ELSE FoldCase(pattern)
        n == IF case_sensitive THEN name ELSE FoldCase(name)
    IN  \E o \in 0..Len(n) : OccursAt(n, p, o)

\* find_matches(dir, needles, flags): the files of the directory, in
\* iteration order, whose name matches one of the needles
FindMatches(names, needles, case_sensitive) ==
    SelectSeq(names, LAMBDA name :
        \E k \in 1..Len(needles) : FilenameMatch(needles[k], name, case_sensitive))

\* int loop_end = option_a ? argc : optind + 1, as a 1-based pattern number
LoopEnd(option_a, patterns) == IF option_a THEN Len(patterns) ELSE 1

\* the directory the match tool is run in, in iteration order
MatchDirectory == << <<"a", "b">>, <<"b">>, <<"A">>, <<"b", "a">> >>

\* the patterns of the command line: plain names, so that dir is cwd
MatchPatterns == {<<"a">>, <<"b">>, <<"a", "b">>}

\* the locals of the match tool's main before its first loop
MatchToolStart(option_a, option_s, patterns) ==
    [pc |-> "loop", option_a |-> option_a, option_s |-> option_s,
     patterns |-> patterns, names |-> MatchDirectory, i |-> 1, needles |-> <<>>,
     prevdir |-> "", matches |-> <<>>, out |-> <<>>]

\* the match tool is not run
MatchToolOff == [pc |-> "off"]

(***************************************************************************)
(* State of a run of main.                                                 *)
(***************************************************************************)
VARIABLES
    cmdline,                 \* the options and arguments main is started with
    directory,               \* the files build_file_list finds, in iteration order
    exit_status,             \* "running", or the status the process ended with
    opened,                  \* the ref tool: the reference it was asked to open
    mt,                      \* the match tool: locals of its main
    env,                     \* the Env built from the command line
    variant,                 \* "futures" or "dispatch" (USE_DISPATCH)
    good_concurrency_count,  \* UU::get_good_concurrency_count() - 1
    g_semaphore,             \* free slots of the counting semaphore
    files,                   \* the file list, in directory iteration order
    disk,                    \* path -> bytes of the file on disk
    original,                \* path -> bytes of the file when the run began
    mainpc,                  \* position of the main thread
    next_file,               \* index of the next file the launch loop starts
    next_join,               \* index of the next future the join loop gets
    pc,                      \* task index -> position of the file task
    work,                    \* task index -> locals and result of process_file
    completion_queue,        \* dispatch: completion blocks waiting to run
    completions,             \* dispatch: the completion counter
    all_refs,                \* the records collected so far
    output_runs,             \* number of calls of output_refs
    terminal,                \* the records rendered on the terminal
    refs_file                \* the records persisted at REFS_PATH, if any

vars == <<cmdline, directory, exit_status, opened, mt, env, variant, good_concurrency_count, g_semaphore, files, disk,
          original, mainpc, next_file, next_join, pc, work, completion_queue,
          completions, all_refs, output_runs, terminal, refs_file>>

Tasks == 1..Len(files)

\* the work record of a task that has not run process_file's body
Idle == [exit |-> "none", source |-> <<>>, scanned |-> <<>>, lined |-> <<>>,
         filtered |-> <<>>, merged |-> <<>>, output |-> <<>>, written |-> FALSE,
         results |-> <<>>]

\* the buffers of the single-file specification
Buffers == SeqsUpTo(Alphabet, MaxLen)

\* the files of the scheduling specification
Corpus == << <<"a", "A", NL, "a">>, <<NL, "A">>, <<"a", "a">> >>
Content(path) == Corpus[((path - 1) % Len(Corpus)) + 1]

\* the file lists of the scheduling specification: directory iteration
\* order is not path order
FileLists == {[k \in 1..n |-> n + 1 - k] : n \in 0..MaxFiles}

\* the configurations of the scheduling specification
SchedEnvs ==
    {MakeEnv(FALSE, FALSE, FALSE, l, n, TRUE, << <<"a">> >>, <<"x", "a">>) :
        l \in BOOLEAN, n \in BOOLEAN}
    \cup {MakeEnv(a, FALSE, FALSE, l, FALSE, FALSE, << <<"a">>, <<"A">> >>, <<>>) :
        a \in BOOLEAN, l \in BOOLEAN}

\* the values UU::get_good_concurrency_count() returns: at least one
GoodConcurrencyCounts == 1..MaxConcurrency

\* const int good_concurrency_count = UU::get_good_concurrency_count() - 1
SlotCount(count) == count - 1

\* the state every run starts in once env, files and disk are drawn; counts
\* are the values get_good_concurrency_count() may return
InitRun(counts) ==
    /\ variant \in {"futures", "dispatch"}
    /\ good_concurrency_count \in
         IF variant = "futures" THEN {SlotCount(c) : c \in counts} ELSE {0}
    /\ g_semaphore = good_concurrency_count
    /\ original = disk
    /\ exit_status = "running"
    /\ mainpc = "configure"
    /\ files = <<>>
    /\ next_file = 1
    /\ next_join = 1
    /\ pc = [i \in Tasks |-> "idle"]
    /\ work = [i \in Tasks |-> Idle]
    /\ completion_queue = <<>>
    /\ completions = 0
    /\ all_refs = <<>>
    /\ output_runs = 0
    /\ terminal = <<>>
    /\ refs_file = [written |-> FALSE, lines |-> <<>>, bytes |-> <<>>]
    /\ opened = RefToolIdle
    /\ mt = MatchToolOff

\* scheduling specification: several files, a few configurations
Init ==
    /\ env \in SchedEnvs
    /\ cmdline = CmdLineOf(env, "")
    /\ directory \in FileLists
    /\ disk = [p \in {directory[i] : i \in 1..Len(directory)} |-> Content(p)]
    /\ InitRun(GoodConcurrencyCounts)

\* single-file specification: one file, every buffer, every configuration
InitFile ==
    /\ env \in Envs
    /\ cmdline = CmdLineOf(env, "")
    /\ directory = <<1>>
    /\ disk \in [{1} -> Buffers]
    /\ InitRun({2})

\* the configurations of the command line specification: one with a pattern
ConfigEnvs ==
    SchedEnvs \cup {MakeEnv(FALSE, TRUE, FALSE, FALSE, FALSE, FALSE, <<[plus |-> "a"]>>, <<>>)}

\* command line specification: the scheduling specification started with any
\* command line, those main rejects included
InitConfig ==
    /\ env \in ConfigEnvs
    /\ cmdline \in CmdLines(env)
    /\ directory \in FileLists
    /\ disk = [p \in {directory[i] : i \in 1..Len(directory)} |-> Content(p)]
    /\ InitRun(GoodConcurrencyCounts)

(***************************************************************************)
(* main: the checks of the command line, then build_file_list.             *)
(***************************************************************************)
Configure ==
    /\ mainpc = "configure"
    /\ IF ConfigError(cmdline) = "none"
       THEN /\ files' = directory
            /\ pc' = [i \in 1..Len(directory) |-> "idle"]
            /\ work' = [i \in 1..Len(directory) |-> Idle]
            /\ mainpc' = "launch"
            /\ UNCHANGED exit_status
       ELSE /\ mainpc' = "config_error"
            /\ exit_status' = ExitStatus(ConfigError(cmdline))
            /\ UNCHANGED <<files, pc, work>>
    /\ UNCHANGED <<cmdline, directory, opened, mt, env, variant,
                   good_concurrency_count, g_semaphore, disk, original, next_file,
                   next_join, completion_queue, completions, all_refs,
                   output_runs, terminal, refs_file>>

(***************************************************************************)
(* main: the launch loop (std::async / dispatch_async per file).           *)
(***************************************************************************)
Launch ==
    /\ mainpc = "launch"
    /\ next_file <= Len(files)
    /\ pc' = [pc EXCEPT ![next_file] = "start"]
    /\ next_file' = next_file + 1
    /\ UNCHANGED <<cmdline, directory, exit_status, opened, mt,
                   env, variant, good_concurrency_count, g_semaphore, files, disk,
                   original, mainpc, next_join, work, completion_queue,
                   completions, all_refs, output_runs, terminal, refs_file>>

\* the loop is over: the join loop starts, or dispatch_main() parks main
EndLaunch ==
    /\ mainpc = "launch"
    /\ next_file > Len(files)
    /\ mainpc' = IF variant = "futures" THEN "join" ELSE "dispatch_main"
    /\ UNCHANGED <<cmdline, directory, exit_status, opened, mt,
                   env, variant, good_concurrency_count, g_semaphore, files, disk,
                   original, next_file, next_join, pc, work, completion_queue,
                   completions, all_refs, output_runs, terminal, refs_file>>

(***************************************************************************)
(* process_file, one task per file.                                        *)
(***************************************************************************)
\* acquire lets a task through when no slot is left
CanAcquireOffByOne(slots) == slots >= 0

\* std::counting_semaphore::acquire returns only when a slot is free
CanAcquire(slots) == slots > 0

\* UU::AcquireReleaseGuard semaphore_guard(g_semaphore)
Acquire(i) ==
    /\ variant = "futures"
    /\ pc[i] = "start"
    /\ CanAcquire(g_semaphore)
    /\ g_semaphore' = g_semaphore - 1
    /\ pc' = [pc EXCEPT ![i] = "acquired"]
    /\ UNCHANGED <<cmdline, directory, exit_status, opened, mt,
                   env, variant, good_concurrency_count, files, disk, original,
                   mainpc, next_file, next_join, work, completion_queue,
                   completions, all_refs, output_runs, terminal, refs_file>>

\* the position from which a task maps its file
MapsFrom(v) == IF v = "futures" THEN "acquired" ELSE "start"

\* process_file returns without the guard's destructor releasing the slot
AfterUnmapSkipsRelease(v) == "returned"

\* the position of a task whose process_file has destroyed its MappedFile
AfterUnmap(v) == IF v = "futures" THEN "returning" ELSE "returned"

\* the completion block of task i is queued when process_file has returned
Enqueue(queue, v, position, i) ==
    IF v = "dispatch" /\ position = "returned" THEN Append(queue, i) ELSE queue

\* MappedFile mapped_file(filename); on failure return the empty results
Map(i) ==
    /\ pc[i] = MapsFrom(variant)
    /\ \E valid \in BOOLEAN :
         IF valid
         THEN /\ pc' = [pc EXCEPT ![i] = "mapped"]
              /\ UNCHANGED <<work, completion_queue>>
         ELSE /\ pc' = [pc EXCEPT ![i] = AfterUnmap(variant)]
              /\ work' = [work EXCEPT ![i] = NoWork(<<>>, "map_failed")]
              /\ completion_queue' =
                     Enqueue(completion_queue, variant, AfterUnmap(variant), i)
    /\ UNCHANGED <<cmdline, directory, exit_status, opened, mt,
                   env, variant, good_concurrency_count, g_semaphore, files, disk,
                   original, mainpc, next_file, next_join, completions, all_refs,
                   output_runs, terminal, refs_file>>

\* the body of process_file on the mapped buffer, UU::write_file included
Process(i) ==
    /\ pc[i] = "mapped"
    /\ \E order \in ProcessOrders(disk[files[i]], env) :
         LET w == ProcessFile(files[i], disk[files[i]], env, order)
         IN  /\ work' = [work EXCEPT ![i] = w]
             /\ disk' = IF w.written THEN [disk EXCEPT ![files[i]] = w.output]
                        ELSE disk
    /\ pc' = [pc EXCEPT ![i] = "scanned"]
    /\ UNCHANGED <<cmdline, directory, exit_status, opened, mt,
                   env, variant, good_concurrency_count, g_semaphore, files,
                   original, mainpc, next_file, next_join, completion_queue,
                   completions, all_refs, output_runs, terminal, refs_file>>

\* return results: ~MappedFile runs first
Unmap(i) ==
    /\ pc[i] = "scanned"
    /\ pc' = [pc EXCEPT ![i] = AfterUnmap(variant)]
    /\ completion_queue' = Enqueue(completion_queue, variant, AfterUnmap(variant), i)
    /\ UNCHANGED <<cmdline, directory, exit_status, opened, mt,
                   env, variant, good_concurrency_count, g_semaphore, files, disk,
                   original, mainpc, next_file, next_join, work, completions,
                   all_refs, output_runs, terminal, refs_file>>

\* the early return of a failed mapping leaves without releasing the slot
ReleaseExceptAfterFailure(i) ==
    /\ variant = "futures"
    /\ pc[i] = "returning"
    /\ work[i].exit # "map_failed"
    /\ g_semaphore' = g_semaphore + 1
    /\ pc' = [pc EXCEPT ![i] = "returned"]
    /\ UNCHANGED <<cmdline, directory, exit_status, opened, mt,
                   env, variant, good_concurrency_count, files, disk, original,
                   mainpc, next_file, next_join, work, completion_queue,
                   completions, all_refs, output_runs, terminal, refs_file>>

\* ~AcquireReleaseGuard releases the slot; the future becomes ready
Release(i) ==
    /\ variant = "futures"
    /\ pc[i] = "returning"
    /\ g_semaphore' = g_semaphore + 1
    /\ pc' = [pc EXCEPT ![i] = "returned"]
    /\ UNCHANGED <<cmdline, directory, exit_status, opened, mt,
                   env, variant, good_concurrency_count, files, disk, original,
                   mainpc, next_file, next_join, work, completion_queue,
                   completions, all_refs, output_runs, terminal, refs_file>>

(***************************************************************************)
(* Collection and output.                                                  *)
(***************************************************************************)
\* the bytes of the persisted list: one line per record
RefsBytes(refs) == Concat([k \in 1..Len(refs) |-> TextRefToString(refs[k]) \o <<NL>>])

\* the records are written one after the other with no line feed between
RefsFileUnterminated(persist, refs) ==
    IF persist
    THEN [written |-> TRUE, lines |-> Renumber(refs),
          bytes |-> Concat([k \in 1..Len(refs) |-> TextRefToString(Renumber(refs)[k])])]
    ELSE [written |-> FALSE, lines |-> <<>>, bytes |-> <<>>]

\* getenv("REFS_PATH") is set and the file opens, or not
RefsFile(persist, refs) ==
    IF persist
    THEN [written |-> TRUE, lines |-> Renumber(refs), bytes |-> RefsBytes(Renumber(refs))]
    ELSE [written |-> FALSE, lines |-> <<>>, bytes |-> <<>>]

\* futures: file_refs = f.get(); all_refs.insert(...)
Join ==
    /\ mainpc = "join"
    /\ next_join <= Len(files)
    /\ pc[next_join] = "returned"
    /\ all_refs' = all_refs \o work[next_join].results
    /\ pc' = [pc EXCEPT ![next_join] = "collected"]
    /\ next_join' = next_join + 1
    /\ UNCHANGED <<cmdline, directory, exit_status, opened, mt,
                   env, variant, good_concurrency_count, g_semaphore, files, disk,
                   original, mainpc, next_file, work, completion_queue,
                   completions, output_runs, terminal, refs_file>>

\* futures: output_refs(env, all_refs); return 0
Output ==
    /\ mainpc = "join"
    /\ next_join > Len(files)
    /\ \E order \in RefOrders(1..Len(all_refs), all_refs), persist \in BOOLEAN :
         /\ terminal' = OutputRefs(all_refs, order)
         /\ refs_file' = RefsFile(persist, OutputRefs(all_refs, order))
    /\ output_runs' = output_runs + 1
    /\ mainpc' = "done"
    /\ exit_status' = "success"
    /\ UNCHANGED <<cmdline, directory, opened, mt,
                   env, variant, good_concurrency_count, g_semaphore, files, disk,
                   original, next_file, next_join, pc, work, completion_queue,
                   completions, all_refs>>

\* the last completion block has run
AllCompleted(count, file_count) == count = file_count

\* dispatch: the completion block at the head of the serial queue
Completion ==
    /\ variant = "dispatch"
    /\ completion_queue # <<>>
    /\ LET i    == Head(completion_queue)
           refs == all_refs \o work[i].results
       IN  /\ all_refs' = refs
           /\ completions' = completions + 1
           /\ pc' = [pc EXCEPT ![i] = "collected"]
           /\ completion_queue' = Tail(completion_queue)
           /\ IF AllCompleted(completions + 1, Len(files))
              THEN /\ \E order \in RefOrders(1..Len(refs), refs), persist \in BOOLEAN :
                        /\ terminal' = OutputRefs(refs, order)
                        /\ refs_file' = RefsFile(persist, OutputRefs(refs, order))
                   /\ output_runs' = output_runs + 1
                   /\ mainpc' = "exited"
                   /\ exit_status' = "success"
              ELSE UNCHANGED <<terminal, refs_file, output_runs, mainpc, exit_status>>
    /\ UNCHANGED <<cmdline, directory, opened, mt,
                   env, variant, good_concurrency_count, g_semaphore, files, disk,
                   original, next_file, next_join, work>>

MainStep == Configure \/ Launch \/ EndLaunch \/ Join \/ Output

Next ==
    \/ Configure
    \/ Launch
    \/ EndLaunch
    \/ \E i \in Tasks : Acquire(i)
    \/ \E i \in Tasks : Map(i)
    \/ \E i \in Tasks : Process(i)
    \/ \E i \in Tasks : Unmap(i)
    \/ \E i \in Tasks : Release(i)
    \/ Join
    \/ Output
    \/ Completion

Spec == Init /\ [][Next]_vars

SpecFile == InitFile /\ [][Next]_vars

SpecConfig == InitConfig /\ [][Next]_vars

\* the configurations of the ordering specification: two literal needles
\* that can match at the same offset, with compaction on and off, and a dry
\* run with compaction off
OrderEnvs ==
    {MakeEnv(TRUE, FALSE, FALSE, l, FALSE, FALSE, << <<"a">>, <<"a", "a">> >>, <<>>) :
        l \in BOOLEAN}
    \cup {MakeEnv(FALSE, FALSE, FALSE, TRUE, TRUE, TRUE, << <<"a">> >>, <<"x", "a">>)}

\* ordering specification: the scheduling specification in Search and
\* ReplaceDryRun mode, with records that can share path, line and column
InitOrder ==
    /\ env \in OrderEnvs
    /\ cmdline = CmdLineOf(env, "")
    /\ directory \in FileLists
    /\ disk = [p \in {directory[i] : i \in 1..Len(directory)} |-> Content(p)]
    /\ InitRun(GoodConcurrencyCounts)

SpecOrder == InitOrder /\ [][Next]_vars

(***************************************************************************)
(* The ref tool run on the list a finished run has persisted.              *)
(***************************************************************************)
RefTool ==
    /\ mainpc \in {"done", "exited"}
    /\ refs_file.written
    /\ opened.status = "none"
    /\ \E sidx \in 0..(Len(refs_file.lines) + 1) :
         opened' = OpenRef(refs_file.bytes, sidx)
    /\ UNCHANGED <<cmdline, directory, exit_status, mt, env, variant,
                   good_concurrency_count, g_semaphore, files, disk, original,
                   mainpc, next_file, next_join, pc, work, completion_queue,
                   completions, all_refs, output_runs, terminal, refs_file>>

NextRef == Next \/ RefTool

(***************************************************************************)
(* The match tool's main.                                                  *)
(***************************************************************************)
\* the state of the search tool, which the match tool leaves alone
search_vars == <<cmdline, directory, exit_status, opened, env, variant,
                 good_concurrency_count, g_semaphore, files, disk, original,
                 mainpc, next_file, next_join, pc, work, completion_queue,
                 completions, all_refs, output_runs, terminal, refs_file>>

\* the match tool started in its directory; the search tool is not run
InitMatch ==
    /\ mt \in {MatchToolStart(a, s, patterns) :
                  a \in BOOLEAN, s \in BOOLEAN,
                  patterns \in SeqsUpTo(MatchPatterns, MaxPatterns) \ {<<>>}}
    /\ env = MakeEnv(FALSE, FALSE, FALSE, FALSE, FALSE, FALSE, << <<"a">> >>, <<>>)
    /\ cmdline = CmdLineOf(env, "")
    /\ directory = <<>>
    /\ disk = <<>>
    /\ variant = "futures"
    /\ good_concurrency_count = 0
    /\ g_semaphore = 0
    /\ original = disk
    /\ exit_status = "running"
    /\ mainpc = "off"
    /\ files = <<>>
    /\ next_file = 1
    /\ next_join = 1
    /\ pc = <<>>
    /\ work = <<>>
    /\ completion_queue = <<>>
    /\ completions = 0
    /\ all_refs = <<>>
    /\ output_runs = 0
    /\ terminal = <<>>
    /\ refs_file = [written |-> FALSE, lines |-> <<>>, bytes |-> <<>>]
    /\ opened = RefToolIdle

\* one pass of the loop over the patterns (lines 215-241)
MatchLoop ==
    /\ mt.pc = "loop"
    /\ mt.i <= LoopEnd(mt.option_a, mt.patterns)
    /\ LET dir     == "cwd"
           needles == Append(mt.needles, mt.patterns[mt.i])
       IN  mt' = IF mt.prevdir # ""
                 THEN [mt EXCEPT !.i = @ + 1, !.needles = needles, !.prevdir = dir]
                 ELSE IF dir # mt.prevdir
                 THEN [mt EXCEPT !.i = @ + 1, !.needles = <<>>, !.prevdir = dir,
                                 !.matches = @ \o FindMatches(mt.names, needles, mt.option_s)]
                 ELSE [mt EXCEPT !.i = @ + 1, !.needles = needles]
    /\ UNCHANGED search_vars

\* after the loop: the needles still pending are searched (lines 243-246)
MatchPending ==
    /\ mt.pc = "loop"
    /\ mt.i > LoopEnd(mt.option_a, mt.patterns)
    /\ mt' = [mt EXCEPT !.pc = "filter",
                        !.matches = IF mt.needles # <<>>
                                    THEN @ \o FindMatches(mt.names, mt.needles, mt.option_s)
                                    ELSE @]
    /\ UNCHANGED search_vars

\* without -a: one more pattern filters the matches found (lines 250-262)
MatchFilter ==
    /\ mt.pc = "filter"
    /\ ~mt.option_a
    /\ mt.i <= Len(mt.patterns)
    /\ mt.matches # <<>>
    /\ mt' = [mt EXCEPT !.i = @ + 1,
                        !.matches = SelectSeq(@, LAMBDA match :
                            FilenameMatch(mt.patterns[mt.i], match, mt.option_s))]
    /\ UNCHANGED search_vars

\* generate output: one indexed record per match (lines 265-304)
MatchOutput ==
    /\ mt.pc = "filter"
    /\ mt.option_a \/ mt.i > Len(mt.patterns) \/ mt.matches = <<>>
    /\ mt' = [mt EXCEPT !.pc = "done",
                        !.out = [k \in 1..Len(mt.matches) |->
                                    [index |-> k, filename |-> mt.matches[k]]]]
    /\ UNCHANGED search_vars

NextMatch == MatchLoop \/ MatchPending \/ MatchFilter \/ MatchOutput

SpecMatch == InitMatch /\ [][NextMatch]_vars

SpecRef == Init /\ [][NextRef]_vars

\* Process(i) seen as a change of position only: enabled exactly when
\* Process(i) is, and every step of Next that satisfies it is a Process(i) step
ProcessStep(i) ==
    /\ i \in Tasks
    /\ pc[i] = "mapped"
    /\ pc' = [pc EXCEPT ![i] = "scanned"]

\* the steps of task i other than Process(i)
TaskMove(i) ==
    /\ i \in Tasks
    /\ (Acquire(i) \/ Map(i) \/ Unmap(i) \/ Release(i))

\* every thread that can take a step is eventually scheduled
Fairness ==
    /\ WF_vars(MainStep)
    /\ WF_vars(Completion)
    /\ \A i \in 1..MaxFiles : WF_vars(TaskMove(i)) /\ WF_pc(ProcessStep(i))

FairSpec == Init /\ [][Next]_vars /\ Fairness

(***************************************************************************)
(* Reference definitions used by the properties: naive scans that do not   *)
(* share code with the pipeline above.                                     *)
(***************************************************************************)
\* the tasks whose process_file body has run on a mapped buffer
Processed == {i \in Tasks : work[i].exit \in {"nothing_found", "filtered_out", "search", "replace"}}

\* the byte span [first, last) of an unmerged match
Span(m) == m.spread[1]

\* two spans share at least one byte
Overlap(s, t) == s.first < t.last /\ t.first < s.last

\* no two matches of the list overlap
NonOverlapping(matches) ==
    \A k, l \in 1..Len(matches) : k # l => ~Overlap(Span(matches[k]), Span(matches[l]))

RECURSIVE NaiveReplaceFrom(_, _, _, _)
\* the source from offset o on, each matched span replaced: byte by byte
NaiveReplaceFrom(source, matches, replacement, o) ==
    IF o >= Len(source) THEN <<>>
    ELSE LET starting == {k \in 1..Len(matches) : Span(matches[k]).first = o}
             inside   == {k \in 1..Len(matches) :
                             Span(matches[k]).first < o /\ o < Span(matches[k]).last}
         IN  (IF starting # {} THEN replacement
              ELSE IF inside # {} THEN <<>> ELSE <<source[o + 1]>>)
             \o NaiveReplaceFrom(source, matches, replacement, o + 1)

RECURSIVE SumOfLengthChanges(_, _)
\* the sum over all matches of len(replacement) - len(match)
SumOfLengthChanges(matches, replacement) ==
    IF matches = <<>> THEN 0
    ELSE (Len(replacement) - StretchLength(Span(Head(matches))))
         + SumOfLengthChanges(Tail(matches), replacement)

\* 1-based line of offset o by a scan of the whole buffer
NaiveLine(buf, o) == 1 + Cardinality({p \in 0..(o - 1) : p < Len(buf) /\ buf[p + 1] = NL})

\* start offset of the line that holds offset o
NaiveLineStart(buf, o) ==
    LET before == {p \in 0..(o - 1) : p < Len(buf) /\ buf[p + 1] = NL}
    IN  IF before = {} THEN 0
        ELSE 1 + CHOOSE p \in before : \A q \in before : q <= p

\* offset of the line feed that ends the line of offset o, or the buffer end
NaiveLineEnd(buf, o) ==
    LET after == {p \in o..(Len(buf) - 1) : buf[p + 1] = NL}
    IN  IF after = {} THEN Len(buf)
        ELSE CHOOSE p \in after : \A q \in after : p <= q

\* number of lines a full scan finds in the buffer
NaiveLineCount(buf) == 1 + Cardinality({p \in 0..(Len(buf) - 1) : buf[p + 1] = NL})

(***************************************************************************)
(* C1: in Replace and ReplaceDryRun modes, with compaction on or off, for  *)
(* every buffer whose surviving matches do not overlap, the rewritten      *)
(* buffer is the source with each matched span replaced and every other    *)
(* byte unchanged and in order, and its length differs from the source's   *)
(* by the sum over the matches of len(replacement) - len(match).           *)
(***************************************************************************)
C1_ReplaceByteExact ==
    \A i \in Tasks :
        (work[i].exit = "replace" /\ NonOverlapping(work[i].filtered)) =>
            /\ work[i].output =
                   NaiveReplaceFrom(work[i].source, work[i].filtered, env.replacement, 0)
            /\ Len(work[i].output) =
                   Len(work[i].source) + SumOfLengthChanges(work[i].filtered, env.replacement)

(***************************************************************************)
(* C2: with two or more needles and match type All, the surviving matches  *)
(* are exactly the matches on the lines on which every needle index        *)
(* occurs, whole runs kept in order; with Any or one needle nothing is     *)
(* dropped.                                                                *)
(***************************************************************************)
\* every needle index occurs among the matches that start on the line of m
LineHasAllNeedles(source, matches, m) ==
    {matches[k].needle_index :
        k \in {l \in 1..Len(matches) :
                 NaiveLine(source, Span(matches[l]).first) =
                 NaiveLine(source, Span(m).first)}}
    = 0..(NeedleCount(env) - 1)

C2_Survives(source, matches, m) ==
    \/ env.match_type = "Any"
    \/ NeedleCount(env) = 1
    \/ LineHasAllNeedles(source, matches, m)

C2_AllAnyFilter ==
    \A i \in Processed :
        work[i].scanned # <<>> =>
            work[i].filtered =
                SelectSeq(work[i].lined,
                          LAMBDA m : C2_Survives(work[i].source, work[i].lined, m))

\* an All run with two needles keeps a line that has a needle twice and
\* drops another line
C2_Witness ==
    \E i \in Processed :
        /\ env.match_type = "All" /\ NeedleCount(env) = 2
        /\ work[i].filtered # <<>>
        /\ Len(work[i].filtered) < Len(work[i].lined)
        /\ Len(work[i].filtered) > 2

(***************************************************************************)
(* C3: the line number, line start offset and line length assigned to a    *)
(* match, and the 1-based start column reported for it, equal those of a   *)
(* naive scan of the whole buffer, although line ends are only collected   *)
(* up to the line of the last match.                                       *)
(***************************************************************************)
C3_LineColumn ==
    \A i \in Processed :
        LET hay == Haystack(work[i].source, env)
        IN  /\ \A k \in 1..Len(work[i].lined) :
                   LET m == work[i].lined[k]
                       o == Span(m).first
                   IN  /\ m.line = NaiveLine(hay, o)
                       /\ m.line_start_index = NaiveLineStart(hay, o)
                       /\ m.line_length = NaiveLineEnd(hay, o) - NaiveLineStart(hay, o)
            /\ work[i].exit = "search" =>
                   \A k \in 1..Len(work[i].results) :
                       /\ work[i].results[k].line =
                              NaiveLine(hay, work[i].merged[k].spread[1].first)
                       /\ \A j \in 1..Len(work[i].results[k].spread) :
                              work[i].results[k].spread[j].first =
                                  work[i].merged[k].spread[j].first
                                  - NaiveLineStart(hay, work[i].merged[k].spread[j].first) + 1

\* a match beyond the first line, in a buffer with more lines than the
\* line-end list holds
C3_Witness ==
    \E i \in Processed :
        /\ work[i].exit = "search"
        /\ \E k \in 1..Len(work[i].lined) :
               work[i].lined[k].line > 1 /\ work[i].lined[k].line_start_index < Span(work[i].lined[k]).first
        /\ LET hay == Haystack(work[i].source, env)
           IN  Len(FindLineEndOffsets(hay, MatchStartIndex(work[i].lined[Len(work[i].lined)])))
                   < NaiveLineCount(hay)

(***************************************************************************)
(* C4: for a literal needle the scanner reports no two occurrences that    *)
(* overlap; for the buffer "aaaa" and the needle "aa" it records exactly   *)
(* the matches at offsets 0 and 2.                                         *)
(***************************************************************************)
C4_NoOverlappingOccurrences ==
    \A i \in Processed :
        /\ \A k, l \in 1..Len(work[i].scanned) :
               (k # l /\ work[i].scanned[k].needle_index = work[i].scanned[l].needle_index)
                   => ~Overlap(Span(work[i].scanned[k]), Span(work[i].scanned[l]))
        /\ (work[i].source = <<"a", "a", "a", "a">>
            /\ env.string_needles = << <<"a", "a">> >>)
               => [k \in 1..Len(work[i].scanned) |-> Span(work[i].scanned[k]).first]
                      = <<0, 2>>

(***************************************************************************)
(* C5: with the semaphore of K slots, at every instant at most K tasks     *)
(* hold a mapped file buffer, for any number of file tasks: a task maps    *)
(* its file only while it holds a slot.                                    *)
(***************************************************************************)
\* the tasks that hold a mapped file buffer
Mapped == {i \in Tasks : pc[i] \in {"mapped", "scanned"}}

\* the tasks between acquire and release
Holding == {i \in Tasks : pc[i] \in {"acquired", "mapped", "scanned", "returning"}}

C5_BoundedMappings ==
    variant = "futures" =>
        /\ Cardinality(Mapped) <= good_concurrency_count
        /\ Mapped \subseteq Holding
        /\ Cardinality(Holding) <= good_concurrency_count

\* more tasks than slots: K buffers mapped while another task waits
C5_Witness ==
    /\ variant = "futures"
    /\ good_concurrency_count >= 1
    /\ Len(files) > good_concurrency_count
    /\ Cardinality(Mapped) = good_concurrency_count
    /\ \E i \in Tasks : pc[i] = "start"

(***************************************************************************)
(* Reference definitions for the collection and output properties.         *)
(***************************************************************************)
\* a record without its index
Strip(r) == [filename |-> r.filename, line |-> r.line, spread |-> r.spread, text |-> r.text]

\* number of records of the list that equal x up to the index
Count(refs, x) == Cardinality({k \in 1..Len(refs) : Strip(refs[k]) = x})

\* the records of all per-file result lists
AllResults == Concat([i \in Tasks |-> work[i].results])

\* the two lists hold the same records the same number of times
SameRecords(a, b) ==
    /\ Len(a) = Len(b)
    /\ \A k \in 1..Len(a) : Count(a, Strip(a[k])) = Count(b, Strip(a[k]))

\* every file task has completed and its result has been collected
AllCollected == \A i \in Tasks : pc[i] = "collected"

\* no thread of the run can take another step
RunAtRest ==
    \/ mainpc \in {"done", "exited"}
    \/ mainpc = "dispatch_main" /\ completion_queue = <<>> /\ AllCollected

\* a is not after b in the order (file path, line number, lowest column)
KeyLeq(a, b) ==
    LET ca == LowestColumn(a.spread)
        cb == LowestColumn(b.spread)
    IN  \/ a.filename < b.filename
        \/ a.filename = b.filename /\ a.line < b.line
        \/ a.filename = b.filename /\ a.line = b.line /\ ca <= cb

(***************************************************************************)
(* C6: for every file list, the empty list included, output_refs runs      *)
(* exactly once per run, only after every file task has completed, and     *)
(* the list it receives holds every record of every per-file result list   *)
(* exactly once and nothing else, in both scheduling variants.             *)
(***************************************************************************)
C6_OutputExactlyOnce ==
    /\ output_runs <= 1
    /\ output_runs = 1 => AllCollected /\ SameRecords(terminal, AllResults)
    /\ RunAtRest => output_runs = 1

(***************************************************************************)
(* C7: once a run is started, under fair scheduling every file task        *)
(* acquires a slot and returns and the run reaches the output step, for    *)
(* every file list and every value of the slot count.                      *)
(***************************************************************************)
C7_RunReachesOutput ==
    (variant = "futures") ~> (mainpc = "done" /\ AllCollected /\ output_runs = 1)

(***************************************************************************)
(* C8: a file is written only by a task in Replace mode that reached the   *)
(* end of the replace walk with a surviving match; Search and              *)
(* ReplaceDryRun write nothing, and ReplaceDryRun returns the records      *)
(* Replace returns for the same input.                                     *)
(***************************************************************************)
C8_WritesOnlyInReplace ==
    /\ \A i \in Tasks :
           work[i].written =>
               /\ env.mode = "SearchAndReplace"
               /\ work[i].exit = "replace"
               /\ work[i].filtered # <<>>
    /\ \A p \in DOMAIN disk :
           disk[p] # original[p] =>
               \E i \in Tasks : files[i] = p /\ work[i].written /\ disk[p] = work[i].output
    /\ env.mode \in {"Search", "SearchAndReplaceDryRun"} => disk = original
    /\ \A i \in Processed :
           env.mode = "SearchAndReplaceDryRun" =>
               \E order \in ProcessOrders(work[i].source, env) :
                   LET replace == ProcessFile(files[i], work[i].source,
                                              [env EXCEPT !.mode = "SearchAndReplace"], order)
                   IN  /\ work[i].results = replace.results
                       /\ work[i].output = replace.output
                       /\ replace.written = (work[i].exit = "replace")

\* a dry run that computed a rewritten buffer different from the file
C8_Witness ==
    \E i \in Processed :
        /\ env.mode = "SearchAndReplaceDryRun"
        /\ work[i].exit = "replace"
        /\ work[i].results # <<>>
        /\ work[i].output # work[i].source
        /\ disk[files[i]] = work[i].source

(***************************************************************************)
(* C9: a file that cannot be opened or mapped yields an empty result       *)
(* without scanning or writing, and the run continues: every other task    *)
(* completes, its records are in the output, and the output step happens.  *)
(***************************************************************************)
\* the tasks whose file could not be mapped
Failed == {i \in Tasks : work[i].exit = "map_failed"}

C9_Safe ==
    /\ \A i \in Failed :
           /\ work[i].results = <<>>
           /\ work[i].scanned = <<>>
           /\ ~work[i].written
           /\ disk[files[i]] = original[files[i]]
    /\ output_runs = 1 =>
           /\ AllCollected
           /\ \A i \in Tasks \ Failed : i \in Processed
           /\ SameRecords(terminal, Concat([i \in Tasks |->
                                IF i \in Failed THEN <<>> ELSE work[i].results]))

C9_FailedFileIsSkipped ==
    /\ []C9_Safe
    /\ (Failed # {}) ~> (output_runs = 1)

\* the run ended with a failed file and records of another file in the output
C9_Witness ==
    /\ output_runs = 1
    /\ Failed # {}
    /\ \E i \in Tasks \ Failed : work[i].results # <<>>
    /\ terminal # <<>>

(***************************************************************************)
(* C10: output_refs emits the N records in non-decreasing order of (file   *)
(* path, line number, lowest column), the record in position i carries     *)
(* index i, whatever the placeholder indices were, and the persisted       *)
(* reference list has the same order and indices as the terminal list.     *)
(***************************************************************************)
C10_SortedAndNumbered ==
    output_runs = 1 =>
        /\ SameRecords(terminal, all_refs)
        /\ \A k \in 1..Len(terminal) : terminal[k].index = k
        /\ \A k \in 1..(Len(terminal) - 1) : KeyLeq(terminal[k], terminal[k + 1])
        /\ refs_file.written => refs_file.lines = terminal

\* three or more records of several files, collected out of order and with
\* placeholder indices that differ from the final ones, persisted
C10_Witness ==
    /\ output_runs = 1
    /\ Len(terminal) >= 3
    /\ refs_file.written
    /\ \E k \in 1..Len(all_refs) : all_refs[k].index # k
    /\ Strip(all_refs[1]) # Strip(terminal[1])
    /\ \E k \in 1..Len(terminal) : terminal[k].filename # terminal[1].filename

(***************************************************************************)
(* Reference definitions for the record and range set properties.          *)
(***************************************************************************)
\* the integers a range set covers
Cover(spread) == UNION {spread[j].first..(spread[j].last - 1) : j \in 1..Len(spread)}

\* the 1-based columns of an unmerged match within its line
MatchColumns(hay, m) ==
    {o - NaiveLineStart(hay, Span(m).first) + 1 : o \in Cover(m.spread)}

\* the line numbers of the matches of a list
LinesOf(matches) == {matches[k].line : k \in 1..Len(matches)}

\* the matches of the list that lie on the given line
OnLine(matches, line) == {k \in 1..Len(matches) : matches[k].line = line}

\* one record per line that has a surviving match
C11_RecordPerLine(i) ==
    /\ Len(work[i].results) = Cardinality(LinesOf(work[i].filtered))
    /\ LinesOf(work[i].results) = LinesOf(work[i].filtered)

\* one record per surviving match, each with a single column range
C11_RecordPerMatch(i) ==
    /\ Len(work[i].results) = Len(work[i].filtered)
    /\ \A k \in 1..Len(work[i].results) :
           /\ Len(work[i].results[k].spread) = 1
           /\ work[i].results[k].line = work[i].filtered[k].line

\* the columns of every record are the columns of the matches it stands for
C11_ColumnsOfMatches(i) ==
    LET hay == Haystack(work[i].source, env)
    IN  \A k \in 1..Len(work[i].results) :
            Cover(work[i].results[k].spread) =
                UNION {MatchColumns(hay, work[i].filtered[j]) :
                          j \in IF env.merge_spreads = "Yes"
                                THEN OnLine(work[i].filtered, work[i].results[k].line)
                                ELSE {k}}

(***************************************************************************)
(* C11 as stated: with compaction on a file task returns one record per    *)
(* line that has a surviving match, and the record's column range set      *)
(* covers exactly the union of the column ranges of the surviving matches  *)
(* of that line; with compaction off it returns one record per surviving   *)
(* match, each with a single column range: in every mode.                  *)
(***************************************************************************)
C11_AsStated ==
    \A i \in Processed :
        /\ IF env.merge_spreads = "Yes" THEN C11_RecordPerLine(i) ELSE C11_RecordPerMatch(i)
        /\ C11_ColumnsOfMatches(i)

(***************************************************************************)
(* C11: with compaction on a file task returns exactly one record per      *)
(* line that has a surviving match; with compaction off it returns one     *)
(* record per surviving match, each with a single column range, even when  *)
(* several matches share a line.  In Search mode the column range set of   *)
(* a record covers exactly the union of the column ranges of the matches   *)
(* it stands for; in the replace modes the columns are those of the        *)
(* replacement text in the rebuilt line.                                   *)
(***************************************************************************)
C11_Compaction ==
    \A i \in Processed :
        /\ IF env.merge_spreads = "Yes" THEN C11_RecordPerLine(i) ELSE C11_RecordPerMatch(i)
        /\ env.mode = "Search" => C11_ColumnsOfMatches(i)

\* a Search with compaction on: two lines with matches, one of them with
\* several matches
C11_Witness ==
    \E i \in Processed :
        /\ env.merge_spreads = "Yes" /\ env.mode = "Search"
        /\ Len(work[i].results) >= 2
        /\ Len(work[i].filtered) > Len(work[i].results)

(***************************************************************************)
(* C12: after simplify a range set holds pairwise disjoint, non-touching   *)
(* half-open ranges in ascending order that cover exactly the union of     *)
(* the ranges added: [1,3) and [3,5) give [1,5), adding [10,12) gives two  *)
(* ranges, and simplifying again changes nothing.  This holds for the      *)
(* spread of every merged match after simplify_spread.                     *)
(***************************************************************************)
\* ascending, pairwise disjoint and non-touching
IsSimplified(spread) ==
    /\ \A j \in 1..Len(spread) : spread[j].first < spread[j].last
    /\ \A j \in 1..(Len(spread) - 1) : spread[j].last < spread[j + 1].first

C12_SimplifiedSpreads ==
    /\ Simplify(<<Stretch(1, 3), Stretch(3, 5)>>) = <<Stretch(1, 5)>>
    /\ Simplify(<<Stretch(1, 3), Stretch(3, 5), Stretch(10, 12)>>)
           = <<Stretch(1, 5), Stretch(10, 12)>>
    /\ \A i \in Processed :
           env.merge_spreads = "Yes" =>
               \A k \in 1..Len(work[i].merged) :
                   LET spread == work[i].merged[k].spread
                   IN  /\ IsSimplified(spread)
                       /\ Simplify(spread) = spread
                       /\ Cover(spread) =
                              UNION {Cover(work[i].filtered[j].spread) :
                                        j \in OnLine(work[i].filtered, work[i].merged[k].line)}

\* three matches on one line become two ranges: two of them touch
C12_Witness ==
    \E i \in Processed :
        /\ env.merge_spreads = "Yes"
        /\ \E k \in 1..Len(work[i].merged) :
               /\ Len(work[i].merged[k].spread) = 2
               /\ Cardinality(OnLine(work[i].filtered, work[i].merged[k].line)) >= 3

(***************************************************************************)
(* C13: the N final records written to the reference file, one line per    *)
(* record with index, absolute path, line and column range, are parsed     *)
(* back by the ref tool to N identical (path, line, column) triples, and   *)
(* line i of the file is the record with index i.                          *)
(***************************************************************************)
\* the fields of a record that the reference file keeps
Persisted(ref) ==
    [index |-> ref.index, filename |-> ref.filename, line |-> ref.line, spread |-> ref.spread]

HasConfigurationError ==
    \/ cmdline.option_e /\ ~cmdline.compiles
    \/ cmdline.option_r /\ cmdline.arguments # 2
    \/ cmdline.option_c # "" /\ cmdline.option_c \notin HighlightColors

C14_ConfigErrorIsFatal ==
    HasConfigurationError =>
        /\ mainpc \in {"configure", "config_error"}
        /\ mainpc = "config_error" => exit_status \in {"failure", "aborted"}
        /\ exit_status # "success"
        /\ files = <<>> /\ next_file = 1 /\ pc = <<>> /\ work = <<>>
        /\ disk = original
        /\ output_runs = 0 /\ terminal = <<>> /\ ~refs_file.written

\* a run over several files stopped by a pattern that does not compile
C14_Witness ==
    /\ cmdline.option_e /\ ~cmdline.compiles
    /\ mainpc = "config_error"
    /\ exit_status = "aborted"
    /\ Len(directory) >= 2

(***************************************************************************)
(* C15: without -a the match tool lists exactly the files whose name       *)
(* matches every pattern given, with -a exactly the files whose name       *)
(* matches at least one pattern; in both cases, for any number of          *)
(* patterns, each such file is listed once and gets one index.             *)
(***************************************************************************)
\* the files the match tool is to list
MatchExpected ==
    {mt.names[n] : n \in {k \in 1..Len(mt.names) :
        IF mt.option_a
        THEN \E j \in 1..Len(mt.patterns) :
                 FilenameMatch(mt.patterns[j], mt.names[k], mt.option_s)
        ELSE \A j \in 1..Len(mt.patterns) :
                 FilenameMatch(mt.patterns[j], mt.names[k], mt.option_s)}}

C15_MatchesListedOnce ==
    mt.pc = "done" =>
        /\ {mt.out[k].filename : k \in 1..Len(mt.out)} = MatchExpected
        /\ Len(mt.out) = Cardinality(MatchExpected)
        /\ \A k \in 1..Len(mt.out) : mt.out[k].index = k

(***************************************************************************)
(* C16: in Replace and ReplaceDryRun mode, compaction on or off and a      *)
(* replacement without line break, the display text of every record is     *)
(* the content of the record's line in the rewritten buffer, and every     *)
(* column range [s, e) of the record selects exactly one copy of the       *)
(* replacement text in that display text.                                  *)
(***************************************************************************)
\* the content of the 1-based line of a buffer, without its line feed
LineText(buffer, line) ==
    LET ends == AscendingSeq({o \in 0..(Len(buffer) - 1) : buffer[o + 1] = NL})
    IN  IF line < 1 \/ line > Len(ends) + 1 THEN <<"no such line">>
        ELSE SubSeq(buffer,
                    IF line = 1 THEN 1 ELSE ends[line - 1] + 2,
                    IF line <= Len(ends) THEN ends[line] ELSE Len(buffer))

\* the record shows its line as rewritten, its ranges the replacement
C16_ShowsWhatWasWritten(i, k) ==
    LET ref == work[i].results[k]
    IN  /\ ref.text = LineText(work[i].output, ref.line)
        /\ \A j \in 1..Len(ref.spread) :
               SubSeq(ref.text, ref.spread[j].first, ref.spread[j].last - 1)
                   = env.replacement

C16_PreviewIsRewrittenLine ==
    \A i \in Processed :
        work[i].exit = "replace" =>
            \A k \in 1..Len(work[i].results) : C16_ShowsWhatWasWritten(i, k)

(***************************************************************************)
(* C17: in a case-insensitive search the folded haystack has the length    *)
(* of the source and only gives offsets: the display text of every record  *)
(* and every byte copied into the rewritten buffer outside the             *)
(* replacements come from the original source buffer, which the folding    *)
(* never modifies.                                                         *)
(***************************************************************************)
\* the ranges of a list of matches, in order, each as a match of its own
Ranges(matches) ==
    LET flat == Concat([k \in 1..Len(matches) |-> matches[k].spread])
    IN  [k \in 1..Len(flat) |-> [spread |-> <<flat[k]>>]]

\* the ranges of a match as offsets into its line
RangesInLine(m) ==
    [j \in 1..Len(m.spread) |->
        [spread |-> <<Stretch(m.spread[j].first - m.line_start_index,
                              m.spread[j].last - m.line_start_index)>>]]

C17_OriginalCaseKept ==
    \A i \in Processed :
        env.search_case = "Insensitive" =>
            /\ Len(Haystack(work[i].source, env)) = Len(work[i].source)
            /\ work[i].source = original[files[i]]
            /\ work[i].exit = "search" =>
                   \A k \in 1..Len(work[i].results) :
                       work[i].results[k].text =
                           LineText(work[i].source, work[i].results[k].line)
            /\ work[i].exit = "replace" =>
                   /\ NonOverlapping(Ranges(work[i].merged)) =>
                          work[i].output =
                              NaiveReplaceFrom(work[i].source, Ranges(work[i].merged),
                                               env.replacement, 0)
                   /\ \A k \in 1..Len(work[i].results) :
                          work[i].results[k].text =
                              NaiveReplaceFrom(
                                  LineText(work[i].source, work[i].results[k].line),
                                  RangesInLine(work[i].merged[k]), env.replacement, 0)

\* a case-insensitive replace that found a mixed-case occurrence and left
\* an upper-case letter outside the matches as it was
C17_Witness ==
    \E i \in Processed :
        /\ env.search_case = "Insensitive"
        /\ work[i].exit = "replace"
        /\ NonOverlapping(Ranges(work[i].merged))
        /\ \E k \in 1..Len(work[i].output) : work[i].output[k] = "A"
        /\ work[i].output # work[i].source
        /\ Haystack(work[i].source, env) # work[i].source

(***************************************************************************)
(* C18: for one needle (no sort) as for several, literal or pattern, the   *)
(* matches enter line assignment in non-decreasing order of start offset;  *)
(* the line cursor only moves forward, every read of the line-end list is  *)
(* in range, and the cursor is below the size of the list each time it     *)
(* has advanced (the ASSERT of line 281).                                  *)
(***************************************************************************)
C18_LineCursorInRange ==
    \A i \in Processed :
        work[i].lined # <<>> =>
            LET lined == work[i].lined
                line_end_offsets ==
                    FindLineEndOffsets(Haystack(work[i].source, env),
                                       MatchStartIndex(lined[Len(lined)]))
            IN  /\ \A k \in 1..(Len(lined) - 1) :
                       /\ MatchStartIndex(lined[k]) <= MatchStartIndex(lined[k + 1])
                       /\ lined[k].line <= lined[k + 1].line
                /\ \A k \in 1..Len(lined) :
                       /\ lined[k].line \in 1..Len(line_end_offsets)
                       /\ line_end_offsets[lined[k].line] >= MatchStartIndex(lined[k])
                       /\ lined[k].line > 1 =>
                              line_end_offsets[lined[k].line - 1] < MatchStartIndex(lined[k])

\* two needles whose matches the sort had to reorder, on two lines or more
C18_Witness ==
    \E i \in Processed :
        /\ NeedleCount(env) = 2
        /\ Len(work[i].lined) >= 3
        /\ \E k \in 1..Len(work[i].lined) :
               work[i].lined[k].needle_index # work[i].scanned[k].needle_index
        /\ work[i].lined[Len(work[i].lined)].line >= 2

(***************************************************************************)
(* C19: every file task acquires exactly one slot before it maps its file  *)
(* and releases exactly one on every exit path (file cannot be mapped, no  *)
(* match, all matches filtered out, Search, Replace, ReplaceDryRun): at    *)
(* every instant the free slots plus the tasks between acquire and return  *)
(* are K, and after the final join all K slots are free.                   *)
(***************************************************************************)
\* the exit paths the tasks that have returned took
ExitsTaken == {work[i].exit : i \in {j \in Tasks : pc[j] \in {"returned", "collected"}}}

C19_SlotAccounting ==
    variant = "futures" =>
        /\ g_semaphore >= 0
        /\ g_semaphore + Cardinality(Holding) = good_concurrency_count
        /\ \A i \in Tasks :
               pc[i] \in {"idle", "start", "returned", "collected"} \/ i \in Holding
        /\ mainpc = "done" =>
               /\ g_semaphore = good_concurrency_count
               /\ \A i \in Tasks : pc[i] = "collected"

\* a finished Replace run with fewer slots than files: one file could not
\* be mapped, one had no match, one was rewritten
C19_Witness ==
    /\ variant = "futures"
    /\ mainpc = "done"
    /\ good_concurrency_count >= 1
    /\ Len(files) > good_concurrency_count
    /\ g_semaphore = good_concurrency_count
    /\ {"map_failed", "nothing_found", "replace"} \subseteq ExitsTaken

(***************************************************************************)
(* C20: during the replace walk, for every match list the scanner hands    *)
(* it (literal or pattern needle, compaction on or off), the source        *)
(* cursor is at or before the start of each range when the range is        *)
(* processed and never beyond the length of the buffer: the copy length    *)
(* range.start - source_index is never negative and the cursor never       *)
(* moves backwards.                                                        *)
(***************************************************************************)
C20_CursorNeverPassesRange ==
    \A i \in Processed :
        work[i].exit = "replace" =>
            LET ranges == Ranges(work[i].merged)
            IN  /\ \A j \in 1..(Len(ranges) - 1) :
                       Span(ranges[j]).last <= Span(ranges[j + 1]).first
                /\ \A j \in 1..Len(ranges) :
                       /\ Span(ranges[j]).first <= Span(ranges[j]).last
                       /\ Span(ranges[j]).last <= Len(work[i].source)
                /\ ReplaceWalk(files[i], work[i].source, work[i].merged,
                               env.replacement).cursor_ok

(***************************************************************************)
(* C21: for a fixed file list, needle set, configuration and file          *)
(* contents in Search or ReplaceDryRun mode, the sequence of records       *)
(* output_refs emits (order, indices, paths, lines, column ranges, texts)  *)
(* is the same for every order in which the file tasks run and complete.   *)
(* std::sort is a function of the list it is given and leaves the order    *)
(* of equivalent records to the implementation: the emitted sequence is    *)
(* that of a run whose tasks complete in file list order when the          *)
(* collected list is the one of that run, or when the order (path, line,   *)
(* lowest column) admits a single arrangement of its records.              *)
(***************************************************************************)
\* the list output_refs receives when the tasks complete in file list order
CollectedInListOrder == Concat([i \in Tasks |-> work[i].results])

\* the sequences output_refs may emit for a list
Emitted(refs) == {OutputRefs(refs, order) : order \in RefOrders(1..Len(refs), refs)}

C21_SameForEveryCompletionOrder ==
    (output_runs = 1 /\ env.mode \in {"Search", "SearchAndReplaceDryRun"}) =>
        \/ all_refs = CollectedInListOrder
        \/ Emitted(CollectedInListOrder) = {terminal}

==========================================================================
